---- MODULE Spec2Model ----
(***************************************************************************)
(* Model of sdk/src/asset_handlers/pdf_io.rs (PdfIO): reading, writing,    *)
(* locating and removing a C2PA manifest in a PDF through seekable         *)
(* streams.                                                                *)
(*                                                                         *)
(* The PDF object model (asset_handlers::pdf::Pdf) and the byte patcher    *)
(* (utils::patch::patch_bytes) are collaborators whose code is not part of *)
(* pdf_io.rs.  They are modelled from their interface description by a     *)
(* small container format over the bytes 0..2:                             *)
(*   - a byte other than Marker is one byte of ordinary content;           *)
(*   - Marker, a header byte h and a payload form a manifest attachment:   *)
(*     h = 1 or h = 2 is a verbatim payload of h bytes, h = 0 is a         *)
(*     one-byte payload stored through a filter (the parser's view of the  *)
(*     payload differs from the stored byte);                              *)
(*   - an empty buffer and a Marker with no header byte are unparseable, a *)
(*     payload cut short by the end of the buffer makes the attachment     *)
(*     listing fail.                                                       *)
(* Streams are std::io::Cursor-like: a byte vector and a position; a write *)
(* overwrites from the position, extends the vector when needed and never  *)
(* truncates it.                                                           *)
(***************************************************************************)
EXTENDS Integers, Sequences, FiniteSets, TLC

\* ------------------------------------------------------------------ bounds
MaxLen == 6        \* longest input document, in bytes
MaxOps == 2        \* number of calls made on the pair of streams

\* ------------------------------------------------------- container format
Byte == {0, 1, 2}
Marker == 2
PayloadLens == {1, 2}

Min(a, b) == IF a < b THEN a ELSE b
Max(a, b) == IF a > b THEN a ELSE b

BytesUpTo(n) == UNION {[1..k -> Byte] : k \in 0..n}

\* manifests handed to write_cai
StoreBytes == UNION {[1..k -> Byte] : k \in PayloadLens}

\* stored payload length announced by a header byte
PayloadLen(h) == IF h = 0 THEN 1 ELSE h

\* the objects of a buffer, scanning from 1-based index i
RECURSIVE ParseFrom(_, _)
ParseFrom(b, i) ==
    IF i > Len(b) THEN <<>>
    ELSE IF b[i] # Marker
         THEN <<[kind |-> "data", hdr |-> 0, stored |-> <<b[i]>>]>>
                  \o ParseFrom(b, i + 1)
    ELSE IF i = Len(b)
         THEN <<[kind |-> "bad", hdr |-> 0, stored |-> <<>>]>>
    ELSE LET h == b[i + 1]
             n == PayloadLen(h)
             avail == Min(n, Len(b) - (i + 1))
         IN  <<[kind |-> "att", hdr |-> h,
                stored |-> SubSeq(b, i + 2, i + 1 + avail)]>>
                  \o ParseFrom(b, i + 2 + n)

\* Pdf::from_bytes / Pdf::from_reader
FromBytes(b) ==
    LET objs == ParseFrom(b, 1)
    IN  [ok |-> Len(b) > 0 /\ \A k \in 1..Len(objs) : objs[k].kind # "bad",
         doc |-> objs]

ObjSize(o) == IF o.kind = "att" THEN 2 + Len(o.stored) ELSE Len(o.stored)

\* the parser's view of an attachment's payload
Decode(o) ==
    IF o.hdr = 0 THEN [k \in 1..Len(o.stored) |-> (o.stored[k] + 1) % 3]
    ELSE o.stored

RECURSIVE LocateFrom(_, _, _)
LocateFrom(doc, k, off) ==
    IF k > Len(doc) THEN <<>>
    ELSE IF doc[k].kind = "att"
         THEN <<[bytes |-> Decode(doc[k]), offset |-> off + 2]>>
                  \o LocateFrom(doc, k + 1, off + ObjSize(doc[k]))
    ELSE LocateFrom(doc, k + 1, off + ObjSize(doc[k]))

\* Pdf::read_manifest_bytes : Result<Option<Vec<(bytes, offset)>>>
Locate(doc) ==
    IF \E k \in 1..Len(doc) :
          doc[k].kind = "att" /\ Len(doc[k].stored) < PayloadLen(doc[k].hdr)
    THEN [status |-> "Err", list |-> <<>>]
    ELSE LET l == LocateFrom(doc, 1, 0)
         IN  IF l = <<>> THEN [status |-> "None", list |-> <<>>]
             ELSE [status |-> "Some", list |-> l]

\* Pdf::write_manifest_as_embedded_file
Install(doc, bytes) ==
    Append(doc, [kind |-> "att", hdr |-> Len(bytes), stored |-> bytes])

\* Pdf::remove_manifest_bytes
Remove(doc) == SelectSeq(doc, LAMBDA o : o.kind # "att")

\* Pdf::save_to
RECURSIVE Serialize(_)
Serialize(doc) ==
    IF doc = <<>> THEN <<>>
    ELSE LET o == Head(doc)
         IN  (IF o.kind = "att" THEN <<Marker, o.hdr>> \o o.stored
              ELSE o.stored) \o Serialize(Tail(doc))

\* 1-based start indices at which needle occurs in data
Occurrences(data, needle) ==
    {i \in 1..(Len(data) - Len(needle) + 1) :
        SubSeq(data, i, i + Len(needle) - 1) = needle}

\* utils::patch::patch_bytes
PatchBytes(data, search, replace) ==
    LET occ == Occurrences(data, search)
    IN  IF Cardinality(occ) # 1 THEN [ok |-> FALSE, data |-> data]
        ELSE LET s == CHOOSE i \in occ : TRUE
             IN  [ok |-> TRUE,
                  data |-> SubSeq(data, 1, s - 1) \o replace
                             \o SubSeq(data, s + Len(search), Len(data))]

\* ----------------------------------------------------------------- streams
Rewind(s) == [s EXCEPT !.pos = 0]

ReadToEnd(s) ==
    [data |-> SubSeq(s.bytes, s.pos + 1, Len(s.bytes)),
     stream |-> [s EXCEPT !.pos = Len(s.bytes)]]

WriteAll(s, buf) ==
    [bytes |-> [i \in 1..Max(Len(s.bytes), s.pos + Len(buf)) |->
                  IF i > s.pos /\ i <= s.pos + Len(buf)
                  THEN buf[i - s.pos] ELSE s.bytes[i]],
     pos |-> s.pos + Len(buf)]

\* ----------------------------------------------------------------- results
Ok(v) == [tag |-> "Ok", val |-> v]
Err(t) == [tag |-> t, val |-> <<>>]

\* ------------------------------------------------------------------- PdfIO
\* variant: the one-element arm answers as the catch-all arm does
ReadManifestBytesOneAsMany(loc) ==
    IF loc.status = "Err" THEN Err("PdfReadError")
    ELSE IF loc.status = "None" THEN Err("JumbfNotFound")
    ELSE Err("NotImplemented")

\* variant: takes manifests.first(), as the writer does
ReadManifestBytesFirst(loc) ==
    IF loc.status = "Err" THEN Err("PdfReadError")
    ELSE IF loc.status = "None" THEN Err("JumbfNotFound")
    ELSE Ok(loc.list[1].bytes)

\* variant: a missing manifest reads as an empty one (unwrap_or_default)
ReadManifestBytesDefault(loc) ==
    IF loc.status = "Err" THEN Err("PdfReadError")
    ELSE IF loc.status = "None" THEN Ok(<<>>)
    ELSE IF Len(loc.list) = 1 THEN Ok(loc.list[1].bytes)
    ELSE Err("NotImplemented")

\* PdfIO::read_manifest_bytes: the "exactly one manifest" policy of reads
ReadManifestBytes(loc) ==
    IF loc.status = "Err" THEN Err("PdfReadError")
    ELSE IF loc.status = "None" THEN Err("JumbfNotFound")
    ELSE IF Len(loc.list) = 1 THEN Ok(loc.list[1].bytes)
    ELSE Err("NotImplemented")

\* CAIReader::read_cai on stream s
ReadCai(s) ==
    LET r == ReadToEnd(Rewind(s))
        pdf == FromBytes(r.data)
    IN  [stream |-> r.stream,
         ret |-> IF ~pdf.ok THEN Err("InvalidAsset")
                 ELSE ReadManifestBytes(Locate(pdf.doc))]

\* variant: the patched buffer is written without output_stream.rewind()
PatchBranchNoRewind(doc, pdf_bytes, manifests, out, store) ==
    IF manifests = <<>> THEN [output |-> out, ret |-> Err("JumbfNotFound")]
    ELSE LET p == PatchBytes(pdf_bytes, manifests[1].bytes, store)
         IN  IF ~p.ok THEN [output |-> out, ret |-> Err("NotFound")]
             ELSE [output |-> WriteAll(out, p.data), ret |-> Ok(<<>>)]

\* variant: a failed patch falls back to installing and re-serializing
PatchBranchFallback(doc, pdf_bytes, manifests, out, store) ==
    IF manifests = <<>> THEN [output |-> out, ret |-> Err("JumbfNotFound")]
    ELSE LET p == PatchBytes(pdf_bytes, manifests[1].bytes, store)
         IN  IF ~p.ok
             THEN [output |-> WriteAll(Rewind(out),
                                       Serialize(Install(doc, store))),
                   ret |-> Ok(<<>>)]
             ELSE [output |-> WriteAll(Rewind(out), p.data),
                   ret |-> Ok(<<>>)]

\* write_cai, a manifest exists: patch the raw buffer, then write it out
PatchBranch(doc, pdf_bytes, manifests, out, store) ==
    IF manifests = <<>> THEN [output |-> out, ret |-> Err("JumbfNotFound")]
    ELSE LET p == PatchBytes(pdf_bytes, manifests[1].bytes, store)
         IN  IF ~p.ok THEN [output |-> out, ret |-> Err("NotFound")]
             ELSE [output |-> WriteAll(Rewind(out), p.data),
                   ret |-> Ok(<<>>)]

\* variant: the document is serialized without the new attachment
InstallBranchNoInstall(doc, out, store) ==
    [output |-> WriteAll(Rewind(out), Serialize(doc)), ret |-> Ok(<<>>)]

\* write_cai, no manifest: install one, serialize, then write it out
InstallBranch(doc, out, store) ==
    [output |-> WriteAll(Rewind(out), Serialize(Install(doc, store))),
     ret |-> Ok(<<>>)]

\* CAIWriter::write_cai
WriteCai(in, out, store) ==
    LET r == ReadToEnd(Rewind(in))
        pdf_bytes == r.data
        pdf == FromBytes(pdf_bytes)
    IN  IF ~pdf.ok
        THEN [input |-> r.stream, output |-> out, ret |-> Err("InvalidAsset")]
        ELSE LET loc == Locate(pdf.doc)
             IN  IF loc.status = "Err"
                 THEN [input |-> r.stream, output |-> out,
                       ret |-> Err("InvalidAsset")]
                 ELSE LET b == IF loc.status = "Some"
                               THEN PatchBranch(pdf.doc, pdf_bytes, loc.list,
                                                out, store)
                               ELSE InstallBranch(pdf.doc, out, store)
                      IN  [input |-> r.stream, output |-> b.output,
                           ret |-> b.ret]

\* the single HashObjectPositions entry built from the first manifest
FirstPosition(manifests) ==
    IF manifests = <<>> THEN Err("JumbfNotFound")
    ELSE Ok(<<[offset |-> manifests[1].offset,
               length |-> Len(manifests[1].bytes),
               htype |-> "Cai"]>>)

\* variant: the placeholder is never installed before re-parsing
PlaceholderPositionNoInstall(doc) ==
    LET out == Serialize(doc)
        pdf == FromBytes(out)
    IN  IF ~pdf.ok THEN Err("InvalidAsset")
        ELSE LET loc == Locate(pdf.doc)
             IN  IF loc.status = "Err" THEN Err("InvalidAsset")
                 ELSE IF loc.status = "None" THEN Err("JumbfNotFound")
                 ELSE FirstPosition(loc.list)

\* get_object_locations_from_stream, no manifest: one-byte placeholder
PlaceholderPosition(doc) ==
    LET out == Serialize(Install(doc, <<0>>))
        pdf == FromBytes(out)
    IN  IF ~pdf.ok THEN Err("InvalidAsset")
        ELSE LET loc == Locate(pdf.doc)
             IN  IF loc.status = "Err" THEN Err("InvalidAsset")
                 ELSE IF loc.status = "None" THEN Err("JumbfNotFound")
                 ELSE FirstPosition(loc.list)

\* CAIWriter::get_object_locations_from_stream
GetObjectLocationsFromStream(in) ==
    LET r == ReadToEnd(Rewind(in))
        pdf == FromBytes(r.data)
    IN  [input |-> r.stream,
         ret |-> IF ~pdf.ok THEN Err("InvalidAsset")
                 ELSE LET loc == Locate(pdf.doc)
                      IN  IF loc.status = "Err" THEN Err("InvalidAsset")
                          ELSE IF loc.status = "Some"
                               THEN FirstPosition(loc.list)
                          ELSE PlaceholderPosition(pdf.doc)]

\* remove_cai_store_from_stream, a manifest exists: remove and serialize
RemoveBranch(doc, in, out) ==
    [input |-> in,
     output |-> WriteAll(Rewind(out), Serialize(Remove(doc))),
     ret |-> Ok(<<>>)]

\* remove_cai_store_from_stream, no manifest: std::io::copy(input, output)
CopyBranch(in, out) ==
    LET c == ReadToEnd(Rewind(in))
    IN  [input |-> c.stream, output |-> WriteAll(out, c.data),
         ret |-> Ok(<<>>)]

\* CAIWriter::remove_cai_store_from_stream
RemoveCaiStoreFromStream(in, out) ==
    LET r == ReadToEnd(Rewind(in))
        pdf == FromBytes(r.data)
    IN  IF ~pdf.ok
        THEN [input |-> r.stream, output |-> out, ret |-> Err("InvalidAsset")]
        ELSE LET loc == Locate(pdf.doc)
             IN  IF loc.status = "Err"
                 THEN [input |-> r.stream, output |-> out,
                       ret |-> Err("InvalidAsset")]
                 ELSE IF loc.status = "Some"
                      THEN RemoveBranch(pdf.doc, r.stream, out)
                 ELSE CopyBranch(r.stream, out)

\* AssetIO::read_cai_store: read_cai on a freshly opened file
ReadCaiStore(fileBytes) == ReadCai([bytes |-> fileBytes, pos |-> 0]).ret

\* ------------------------------------------------------------------- state
VARIABLES
    input,     \* the caller's input stream (the asset): [bytes, pos]
    output,    \* the caller's output stream: [bytes, pos]
    call,      \* the last call: [op, store]
    ret,       \* what the last call returned
    ops        \* number of calls made so far

vars == <<input, output, call, ret, ops>>

Init ==
    /\ \E b \in BytesUpTo(MaxLen) : input = [bytes |-> b, pos |-> 0]
    /\ output = [bytes |-> <<>>, pos |-> 0]
    /\ call = [op |-> "none", store |-> <<>>]
    /\ ret = Ok(<<>>)
    /\ ops = 0

DoReadCai ==
    /\ ops < MaxOps
    /\ LET r == ReadCai(input)
       IN  /\ input' = r.stream
           /\ ret' = r.ret
    /\ call' = [op |-> "read_cai", store |-> <<>>]
    /\ ops' = ops + 1
    /\ UNCHANGED output

\* read_cai applied to the stream a writer has just filled
DoReadCaiOutput ==
    /\ ops < MaxOps
    /\ LET r == ReadCai(output)
       IN  /\ output' = r.stream
           /\ ret' = r.ret
    /\ call' = [op |-> "read_cai_output", store |-> <<>>]
    /\ ops' = ops + 1
    /\ UNCHANGED input

DoReadCaiStore ==
    /\ ops < MaxOps
    /\ ret' = ReadCaiStore(input.bytes)
    /\ call' = [op |-> "read_cai_store", store |-> <<>>]
    /\ ops' = ops + 1
    /\ UNCHANGED <<input, output>>

DoWriteCai ==
    /\ ops < MaxOps
    /\ \E store \in StoreBytes :
          LET r == WriteCai(input, output, store)
          IN  /\ input' = r.input
              /\ output' = r.output
              /\ ret' = r.ret
              /\ call' = [op |-> "write_cai", store |-> store]
    /\ ops' = ops + 1

DoGetObjectLocations ==
    /\ ops < MaxOps
    /\ LET r == GetObjectLocationsFromStream(input)
       IN  /\ input' = r.input
           /\ ret' = r.ret
    /\ call' = [op |-> "get_object_locations", store |-> <<>>]
    /\ ops' = ops + 1
    /\ UNCHANGED output

DoRemoveCaiStore ==
    /\ ops < MaxOps
    /\ LET r == RemoveCaiStoreFromStream(input, output)
       IN  /\ input' = r.input
           /\ output' = r.output
           /\ ret' = r.ret
    /\ call' = [op |-> "remove_cai_store", store |-> <<>>]
    /\ ops' = ops + 1

Next ==
    \/ DoReadCai
    \/ DoReadCaiOutput
    \/ DoReadCaiStore
    \/ DoWriteCai
    \/ DoGetObjectLocations
    \/ DoRemoveCaiStore

Spec == Init /\ [][Next]_vars

\* ------------------------------------------------------- vocabulary of claims
\* the attachments the locate step finds in a buffer (<<>> when it finds none,
\* fails, or the buffer does not parse)
Manifests(b) ==
    LET pdf == FromBytes(b)
    IN  IF pdf.ok /\ Locate(pdf.doc).status = "Some"
        THEN Locate(pdf.doc).list ELSE <<>>

\* the buffer parses and holds no manifest attachment
HasNone(b) ==
    LET pdf == FromBytes(b)
    IN  pdf.ok /\ Locate(pdf.doc).status = "None"

IsRead == call.op \in {"read_cai", "read_cai_output", "read_cai_store"}

\* the bytes the last read was given
ReadBytes == IF call.op = "read_cai_output" THEN output.bytes ELSE input.bytes

\* the buffer a successful writer call is to leave in the output stream
ExpectedResult(c, raw) ==
    LET doc == FromBytes(raw).doc
        ms == Manifests(raw)
    IN  IF c.op = "write_cai"
        THEN IF ms # <<>> THEN PatchBytes(raw, ms[1].bytes, c.store).data
             ELSE Serialize(Install(doc, c.store))
        ELSE IF ms # <<>> THEN Serialize(Remove(doc)) ELSE raw

\* out holds new at [off, off + Len(new)) and agrees with raw everywhere else
\* over the length of raw (off is 0-based)
PatchedAt(out, raw, off, new) ==
    /\ Len(out) >= Len(raw)
    /\ \A i \in 1..Len(raw) :
          out[i] = IF i > off /\ i <= off + Len(new) THEN new[i - off]
                   ELSE raw[i]

\* ---------------------------------------------------------------------- C1
\* C1: whenever the locate step finds exactly one manifest attachment with
\* bytes B in the document a read was given, the read returns Ok(B),
\* whatever the attachment's offset.
C1_ReadReturnsTheOneManifest ==
    (IsRead /\ Len(Manifests(ReadBytes)) = 1)
        => ret = Ok(Manifests(ReadBytes)[1].bytes)

C1_Witness ==
    /\ IsRead
    /\ Len(Manifests(ReadBytes)) = 1
    /\ Manifests(ReadBytes)[1].offset > 2
    /\ Len(Manifests(ReadBytes)[1].bytes) = 2
    /\ ret.tag = "Ok"

\* ---------------------------------------------------------------------- C2
\* C2: whenever the locate step finds two or more manifest attachments, the
\* read fails with NotImplemented and carries no attachment bytes.
C2_ReadRefusesSeveralManifests ==
    (IsRead /\ Len(Manifests(ReadBytes)) >= 2)
        => (ret.tag = "NotImplemented" /\ ret.val = <<>>)

C2_Witness ==
    /\ call.op = "read_cai"
    /\ Len(Manifests(input.bytes)) >= 2
    /\ ret.tag = "NotImplemented"

\* ---------------------------------------------------------------------- C3
\* C3: whenever the document parses and holds no manifest attachment, a read
\* fails with JumbfNotFound, through the stream entry point (read_cai) and
\* through the path entry point (read_cai_store) alike.
C3_ReadWithoutManifestIsJumbfNotFound ==
    (IsRead /\ HasNone(ReadBytes)) => ret = Err("JumbfNotFound")

C3_Witness ==
    /\ call.op = "read_cai_store"
    /\ HasNone(input.bytes)
    /\ Len(input.bytes) > 0
    /\ ret.tag = "JumbfNotFound"

C5_RemoveNothingIsIdentity ==
    [][(/\ ops' = ops + 1
        /\ call'.op = "remove_cai_store"
        /\ HasNone(input.bytes))
         => (ret'.tag = "Ok" /\ output'.bytes = input.bytes)]_vars

\* ---------------------------------------------------------------------- C6
\* C6 (as stated): write_cai of M2 on a document holding a manifest M1 at
\* offset O, with Len(M2) = Len(M1), succeeds and leaves an output that holds
\* M2 at [O, O + Len(M2)) and the input's bytes everywhere else.
C6_InPlacePatch ==
    (/\ call.op = "write_cai"
     /\ Manifests(input.bytes) # <<>>
     /\ Len(call.store) = Len(Manifests(input.bytes)[1].bytes))
        => (/\ ret.tag = "Ok"
            /\ PatchedAt(output.bytes, input.bytes,
                         Manifests(input.bytes)[1].offset, call.store))

\* C6 (amended): the same, provided the byte sequence M1 occurs exactly once
\* in the raw input buffer, namely at offset O.
C6_InPlacePatchUniqueNeedle ==
    (/\ call.op = "write_cai"
     /\ Manifests(input.bytes) # <<>>
     /\ Len(call.store) = Len(Manifests(input.bytes)[1].bytes)
     /\ Occurrences(input.bytes, Manifests(input.bytes)[1].bytes)
            = {Manifests(input.bytes)[1].offset + 1})
        => (/\ ret.tag = "Ok"
            /\ PatchedAt(output.bytes, input.bytes,
                         Manifests(input.bytes)[1].offset, call.store))

C6_Witness ==
    /\ call.op = "write_cai"
    /\ Manifests(input.bytes) # <<>>
    /\ Manifests(input.bytes)[1].offset > 2
    /\ Manifests(input.bytes)[1].offset + 2 < Len(input.bytes)
    /\ Len(call.store) = 2
    /\ Len(Manifests(input.bytes)[1].bytes) = 2
    /\ call.store # Manifests(input.bytes)[1].bytes
    /\ Occurrences(input.bytes, Manifests(input.bytes)[1].bytes)
           = {Manifests(input.bytes)[1].offset + 1}
    /\ ret.tag = "Ok"

\* ---------------------------------------------------------------------- C7
\* C7: get_object_locations_from_stream on a document without a manifest
\* attachment never returns JumbfNotFound and never an empty list: a
\* successful return is exactly one position, of length 1, placed where the
\* placeholder's byte lies in the re-serialized document.
C7_PlaceholderIsLocated ==
    (call.op = "get_object_locations" /\ HasNone(input.bytes))
        => (/\ ret.tag # "JumbfNotFound"
            /\ ret.tag = "Ok"
                 => (/\ Len(ret.val) = 1
                     /\ ret.val[1].length = 1
                     /\ ret.val[1].offset = Len(input.bytes) + 2))

C7_Witness ==
    /\ call.op = "get_object_locations"
    /\ HasNone(input.bytes)
    /\ Len(input.bytes) > 0
    /\ ret.tag = "Ok"
    /\ Len(ret.val) = 1

\* ---------------------------------------------------------------------- C8
\* C8: every successful write_cai and remove_cai_store_from_stream leaves its
\* result at offset 0 of the output stream: the stream starts with the result
\* and stands right behind it, wherever it stood on entry.
C8_ResultStartsAtOffsetZero ==
    [][(/\ ops' = ops + 1
        /\ call'.op \in {"write_cai", "remove_cai_store"}
        /\ ret'.tag = "Ok")
         => LET res == ExpectedResult(call', input.bytes)
            IN  /\ output'.pos = Len(res)
                /\ SubSeq(output'.bytes, 1, Len(res)) = res]_vars

\* ---------------------------------------------------------------------- C9
\* C9: whenever discovery yields more than one manifest attachment, read_cai,
\* write_cai and get_object_locations_from_stream fail instead of acting on
\* the first one.
C9_SeveralManifestsAlwaysRefused ==
    (/\ call.op \in {"read_cai", "read_cai_output", "read_cai_store",
                     "write_cai", "get_object_locations"}
     /\ Len(Manifests(ReadBytes)) >= 2)
        => ret.tag # "Ok"

\* --------------------------------------------------------------------- C10
\* C10: when write_cai finds a manifest whose bytes occur nowhere in the raw
\* input buffer, it returns the patcher's error and leaves the output
\* stream's contents and position as they were (no install, no rewrite).
C10_FailedPatchLeavesOutputAlone ==
    [][(/\ ops' = ops + 1
        /\ call'.op = "write_cai"
        /\ Manifests(input.bytes) # <<>>
        /\ Occurrences(input.bytes, Manifests(input.bytes)[1].bytes) = {})
         => (ret' = Err("NotFound") /\ output' = output)]_vars

C10_Witness ==
    /\ call.op = "write_cai"
    /\ Manifests(input.bytes) # <<>>
    /\ Occurrences(input.bytes, Manifests(input.bytes)[1].bytes) = {}
    /\ ret.tag = "NotFound"
    /\ ops = 2
    /\ output.bytes # <<>>

====
